---- MODULE Spec2Model ----
(***************************************************************************)
(* Conversation ingestion engine of the dashboard back end:                *)
(*   - the Z-API provider adapter (services/whatsapp_service.py),          *)
(*   - the webhook handler zapi_webhook and the other operations that      *)
(*     write customers, conversations and messages                         *)
(*     (routers/conversations.py),                                         *)
(*   - the ConnectionManager that fans events out to the observers.        *)
(* Every request runs as one asyncio task with its own database session;   *)
(* a task is suspended at every await, so each action below is the code    *)
(* between two awaits together with the database statement awaited.        *)
(* The store is PostgreSQL (seed.py) at its default isolation level: rows  *)
(* flushed by a session are invisible to the others until it commits, and  *)
(* an insert or update that meets an uncommitted row with the same unique  *)
(* key, or a row locked by another session, waits for that session to end. *)
(***************************************************************************)
EXTENDS Integers, Sequences, FiniteSets, TLC

\* ------------------------------------------------------------ JSON values
\* Python None / JSON null / SQL NULL, and a key that the payload lacks.
NULL == "null"
ABSENT == "absent"

\* data.get(key): a missing key reads as None.
Get(v) == IF v = ABSENT THEN NULL ELSE v

\* Python truthiness of a value that is None or a string.
Truthy(v) == v # NULL /\ v # ABSENT /\ v # ""

\* The phone is the only string the code takes apart (str(), "@" in, split),
\* so it is a sequence of tokens: "5511" is <<"5511">>, "1203@g.us" is
\* <<"1203", "@", "g.us">>, "" is <<>>.  A phone field is a tagged value.
JStr(toks) == [t |-> "str", s |-> toks]
JNull == [t |-> "null", s |-> <<>>]
JAbsent == [t |-> "absent", s |-> <<>>]

\* str(x): None prints as the four letters None.
PyStr(v) == IF v.t = "str" THEN v.s ELSE <<"None">>

\* Truthiness of a phone value: None and "" are falsy.
PhoneTruthy(v) == v.t = "str" /\ v.s # <<>>

\* "@g.us" in s
HasGroupSuffix(s) == \E i \in 1..(Len(s) - 1) : s[i] = "@" /\ s[i + 1] = "g.us"

\* s.split("@")[0]
RECURSIVE SplitAtFirst(_)
SplitAtFirst(s) ==
    IF s = <<>> \/ Head(s) = "@" THEN <<>>
    ELSE <<Head(s)>> \o SplitAtFirst(Tail(s))

\* f"{phone}@c.us"
RemoteIdOf(phone) == PyStr(phone) \o <<"@", "c.us">>

\* ------------------------------------------------------- provider adapter
\* What process_webhook returns for a payload it drops: the empty dict.
EmptyDict ==
    [empty |-> TRUE, raised |-> FALSE, remote_id |-> <<>>, phone |-> JNull, sender_name |-> NULL,
     content |-> "", from_me |-> FALSE, whatsapp_id |-> NULL,
     is_media |-> FALSE, media_url |-> NULL]

InformativeEvents == {"Disconnected", "Connected", "MessageStatus"}
AcceptedEvents ==
    {"ReceivedMessage", "SendMessage", "ReceivedCallback",
     "on-message-received", "message-received"}

\* event_type = data.get("type") or data.get("event") or data.get("action")
RawEventType(data) ==
    IF Truthy(data.type) THEN data.type
    ELSE IF Truthy(data.event) THEN data.event
    ELSE Get(data.action)

\* The event type after the inference of lines 93-99 ("ignore" when the
\* payload has no type and no message-shaped field).
EventType(data) ==
    LET et == RawEventType(data) IN
    IF Truthy(et) THEN et
    ELSE IF data.phone.t # "absent" \/ data.message.t # "absent"
         THEN "ReceivedMessage"
         ELSE "ignore"

\* A group filter that trusts the isGroup flag alone.
IsGroupFlagOnly(data) == data.isGroup

\* Lines 108-111: is_group or (phone and "@g.us" in str(phone))
IsGroupMessage(data) ==
    \/ data.isGroup
    \/ PhoneTruthy(data.phone) /\ HasGroupSuffix(PyStr(data.phone))

\* from_me = data.get("fromMe", False) or (event_type == "SendMessage")
FromMe(data) == data.fromMe \/ EventType(data) = "SendMessage"

\* A text or message field is a tagged value: t is "absent", "null", "str"
\* or "dict"; s is the string (t = "str"); for a dict, text and message are
\* the values of its keys of those names (ABSENT, NULL or a string).
DictGet(v, default) == IF v = ABSENT THEN default ELSE v
PyOr(a, b) == IF Truthy(a) THEN a ELSE b
StrOf(v) == IF v = NULL THEN "None" ELSE v
FieldValue(f) == IF f.t = "str" THEN f.s ELSE NULL

\* Lines 122-141: the body of the message.
Content(data) ==
    LET raw ==
            IF data.text.t = "dict" THEN DictGet(data.text.message, "")
            ELSE IF data.message.t = "dict"
                 THEN PyOr(DictGet(data.message.text, ""),
                           DictGet(data.message.message, ""))
                 ELSE PyOr(PyOr(FieldValue(data.text), FieldValue(data.message)), "")
        str == StrOf(raw)
    IN  IF str # "" THEN str ELSE PyOr(Get(data.caption), "")

\* Lines 143-151: an image wins over a document; the url of a media object.
\* A media field is a tagged value: t is "absent", "dict" or "other" (a
\* string, a number, null); url is the value of the object's key url.
IsMedia(data) == data.image.t # "absent" \/ data.document.t # "absent"
MediaUrl(data) ==
    IF data.image.t # "absent" THEN Get(data.image.url)
    ELSE IF data.document.t # "absent" THEN Get(data.document.url)
    ELSE NULL

\* data["image"].get("url") and data["document"].get("url") raise
\* AttributeError on a media field that is no object; so does data.get on a
\* payload that is no object.
MediaRaises(data) ==
    IF data.image.t # "absent" THEN data.image.t # "dict"
    ELSE data.document.t # "absent" /\ data.document.t # "dict"
Raised == [EmptyDict EXCEPT !.empty = FALSE, !.raised = TRUE]

\* ZApiProvider.process_webhook
process_webhook(data) ==
    IF ~data.isdict THEN Raised
    ELSE IF RawEventType(data) \in InformativeEvents THEN EmptyDict
    ELSE IF EventType(data) \notin AcceptedEvents THEN EmptyDict
    ELSE IF IsGroupMessage(data) THEN EmptyDict
    ELSE IF MediaRaises(data) THEN Raised
    ELSE [empty |-> FALSE, raised |-> FALSE,
          remote_id |-> RemoteIdOf(data.phone),
          phone |-> IF data.phone.t = "absent" THEN JNull ELSE data.phone,
          sender_name |-> PyOr(PyOr(Get(data.senderName), Get(data.pushName)), "Cliente"),
          content |-> Content(data),
          from_me |-> FromMe(data),
          whatsapp_id |-> Get(data.messageId),
          is_media |-> IsMedia(data),
          media_url |-> MediaUrl(data)]

\* ------------------------------------------------------------------ state
VARIABLES
    customers,           \* committed rows of customers: <<[phone, name]>>, id = index
    conversations,       \* committed rows of conversations: <<[customer_id, status]>>
    messages,            \* committed rows of messages, id = index
    task,                \* the running request handlers, one record per task
    active_connections,  \* ConnectionManager.active_connections
    broken,              \* observer sockets whose peer is gone: a send on them fails
    received,            \* what each observer socket was sent, in order
    issued,              \* how many message ids the provider has returned for sends
    calls,               \* the calls made to the reply generator and the gateway
    requests             \* how many requests were accepted so far

vars ==
    <<customers, conversations, messages, task, active_connections, broken,
      received, issued, calls, requests>>
store == <<customers, conversations, messages>>
hub == <<active_connections, broken>>

\* The tasks of the server, the ones that run requests at the same time in
\* the general specifications, and the observers' sockets.
AllTasks == {1, 2, 3}
Tasks == {1, 2}
Conns == {"w1"}
AllConns == {"w1", "w2"}

\* Bound of the model: the requests accepted in one run.
MaxRequests == 2

\* The ids the provider assigns to outbound sends, in the order it returns
\* them (a request sends at most once, so these are never used up).
OutIds == <<"g1", "g2", "g3", "g4", "g5", "g6">>
IssuedIds == {OutIds[k] : k \in 1..issued}

\* What the hub pushes: json.dumps of a message event of a stored message,
\* or a plain line of text.
MessageEvent(m) == [type |-> "message", id |-> m]
ErrorNotice == [type |-> "text", id |-> 0]
LeftNotice == [type |-> "left", id |-> 0]
NoEvent == [type |-> NULL, id |-> 0]

\* func.now(): the database evaluates it once for a transaction, so every
\* row a commit writes carries the same time.  Time is measured by the
\* number of messages committed so far, which never goes back, and is read
\* at the commit (transactions that overlap are ordered by their commits).
Now == Len(messages)

\* A task that runs no request.  For broadcast_encarte, selected is the
\* number of customers its query returned and pending holds the
\* conversations of the messages it has added to its session (0: a
\* conversation the session has flushed itself).
Idle ==
    [op |-> NULL, pc |-> "done", result |-> NULL, ev |-> EmptyDict,
     selected |-> 0, pending |-> <<>>,
     customer |-> 0, conversation |-> 0, db_message |-> 0,
     newCustomer |-> FALSE, setName |-> FALSE, newConversation |-> FALSE,
     sender_type |-> NULL, content |-> NULL,
     bot_whatsapp_id |-> NULL, i |-> 0, connection |-> NULL,
     outgoing |-> NoEvent, client |-> NULL]

\* The request has ended with this answer; its session is closed, which
\* rolls back whatever it had flushed and not committed.
Ended(rec, answer) == [Idle EXCEPT !.op = rec.op, !.result = answer]
Finished(t, answer) == [task EXCEPT ![t] = Ended(task[t], answer)]

\* The handler goes on at nextPc; "return" is its final return statement.
Goto(rec, nextPc) ==
    IF nextPc = "return" THEN Ended(rec, "success")
    ELSE [rec EXCEPT !.pc = nextPc, !.i = 0, !.connection = NULL]

\* ------------------------------------------------------------------- store
CustomerIds == 1..Len(customers)
ConversationIds == 1..Len(conversations)
MessageIds == 1..Len(messages)

\* select(Message).where(Message.whatsapp_id == wid): rows found
MessagesWithId(wid) == {m \in MessageIds : messages[m].whatsapp_id = wid}

\* select(Customer).where(Customer.phone == phone).first(): its id, 0 for None
CustomerByPhone(phone) ==
    IF \E c \in CustomerIds : customers[c].phone = phone
    THEN CHOOSE c \in CustomerIds : customers[c].phone = phone
    ELSE 0

\* select(Conversation).where(customer_id == c, status == "open"): rows found
OpenConversations(c) ==
    {k \in ConversationIds :
        conversations[k].customer_id = c /\ conversations[k].status = "open"}

\* select(Message).where(conversation_id == k, sender_type == BOT): rows found
BotMessages(k) ==
    {m \in MessageIds :
        messages[m].conversation_id = k /\ messages[m].sender_type = "bot"}

\* A messages table without the unique constraint on whatsapp_id.
WithoutUniqueId(wid) == FALSE

\* Message.whatsapp_id is unique=True, nullable=True: an insert or update to
\* a non-null id that a committed row already has raises IntegrityError.
ViolatesUniqueId(wid) == wid # NULL /\ MessagesWithId(wid) # {}

\* A customers table without the unique constraint on phone.
WithoutUniquePhone(phone) == FALSE

\* Customer.phone is unique=True.
ViolatesUniquePhone(phone) == CustomerByPhone(phone) # 0

\* A handler that runs the greeting check after every stored message,
\* whatever its role.
AfterBroadcastAnyRole(rec, sendingPc) ==
    IF sendingPc # "broadcast" THEN "return"
    ELSE IF rec.op = "zapi" THEN "greet"
    ELSE IF rec.op = "dashboard" THEN "dashSelect"
    ELSE "wsGreet"

\* -------------------------------------------------------------- broadcast
\* Where a handler goes on once the broadcast it awaits has returned.
\*   zapi_webhook: after the stored message, the greeting check unless the
\*     message is the operator's (line 395); after the greeting, the return.
\*   send_message_with_attachment: the send through the gateway (line 619).
\*   websocket_endpoint: after the stored message, the gateway for an
\*     agent's message (line 728), the greeting check for a customer's (line
\*     740); after the greeting or the error notice, the next receive.
\*   evolution_webhook: after the stored message, the greeting check (line
\*     516); after the greeting, the return.
AfterBroadcast(rec, sendingPc) ==
    IF sendingPc # "broadcast" THEN "return"
    ELSE IF rec.op = "zapi" THEN (IF rec.ev.from_me THEN "return" ELSE "greet")
    ELSE IF rec.op = "evolution" THEN "evoGreet"
    ELSE IF rec.op = "dashboard" THEN "dashSelect"
    ELSE IF rec.sender_type = "agent" THEN "wsSelect"
    ELSE IF rec.sender_type = "customer" THEN "wsGreet"
    ELSE "return"

\* ConnectionManager.broadcast: `for connection in self.active_connections`
\* takes the next element of the live list by index, then awaits its send.
\* i counts the elements taken so far; connection is the one being sent to.
\* The loop starts here: with an empty registry it ends at once.
BroadcastOver(connections, rec, event, sendingPc) ==
    IF Len(connections) = 0
    THEN Goto(rec, AfterBroadcast(rec, sendingPc))
    ELSE [rec EXCEPT !.pc = sendingPc, !.outgoing = event, !.i = 1,
                     !.connection = connections[1]]
\* A handler that goes on without pushing the event to anyone.
WithoutBroadcast(rec, event, sendingPc) ==
    Goto(rec, AfterBroadcast(rec, sendingPc))

BeginBroadcast(rec, event, sendingPc) ==
    BroadcastOver(active_connections, rec, event, sendingPc)

\* The loop after a send has returned: the next element, or the end.
ContinueBroadcast(rec) ==
    IF rec.i >= Len(active_connections)
    THEN Goto(rec, AfterBroadcast(rec, rec.pc))
    ELSE [rec EXCEPT !.i = rec.i + 1,
                     !.connection = active_connections[rec.i + 1]]

\* What the exception of a failing send does to the handler.
\*   zapi_webhook: the broadcast of the stored message (line 391) is outside
\*     the try block, the request ends with a 500; the broadcast of the
\*     greeting (line 443) is inside it, line 445 logs and the request
\*     succeeds.
\*   send_message_with_attachment: line 617 is unguarded, a 500.
\*   evolution_webhook: lines 513 and 550 are unguarded, a 500.
\*   websocket_endpoint: line 784 catches it and broadcasts an error notice;
\*     a failure of that broadcast, or of the broadcast of line 789, ends
\*     the endpoint with the exception.
SendFailed(rec) ==
    IF rec.op = "zapi"
    THEN Ended(rec, IF rec.pc = "broadcast" THEN "500" ELSE "success")
    ELSE IF rec.op \in {"dashboard", "evolution"} THEN Ended(rec, "500")
    ELSE IF rec.pc \in {"broadcastError", "broadcastLeft"}
         THEN Ended(rec, "crashed")
    ELSE BeginBroadcast(rec, ErrorNotice, "broadcastError")

\* ------------------------------------------------------------ zapi_webhook
\* Line 327: phone = normalized.get("phone") or remote_id.split("@")[0];
\* <<>> stands for the falsy results ("" and None).
HandlerPhone(ev) ==
    IF PhoneTruthy(ev.phone) THEN ev.phone.s
    ELSE IF ev.remote_id # <<>> THEN SplitAtFirst(ev.remote_id)
    ELSE <<>>

\* Lines 319-324: the duplicate check; it runs only on a truthy id.
AlreadyProcessed(wid) == Truthy(wid) /\ MessagesWithId(wid) # {}

\* A request is run by the first task that runs none (the tasks are
\* interchangeable).
Free(t) ==
    /\ task[t].pc = "done"
    /\ \A u \in AllTasks : u < t => task[u].pc # "done"

\* Lines 291-331: the request arrives, its body is parsed and normalized, the
\* duplicate check is awaited and the phone is derived.
ZapiReceive(t, method, body) ==
    /\ Free(t)
    /\ requests' = requests + 1
    /\ LET normalized == process_webhook(body)
           start == [Idle EXCEPT !.op = "zapi"]
           answer(a) == [task EXCEPT ![t] = [start EXCEPT !.result = a]]
       IN  task' =
             IF method = "GET" THEN answer("ok")
             ELSE IF ~body.valid THEN answer("error")
             ELSE IF normalized.raised THEN answer("500")
             ELSE IF normalized.empty THEN answer("ignored")
             ELSE IF AlreadyProcessed(normalized.whatsapp_id)
                  THEN answer("already_processed")
             ELSE IF HandlerPhone(normalized) = <<>> THEN answer("no_phone")
             ELSE [task EXCEPT ![t] =
                     [start EXCEPT !.pc = "selCustomer", !.ev = normalized]]
    /\ UNCHANGED <<store, hub, received, issued, calls>>

\* A handler that takes the sender's name whatever name is stored.
MayRenameAnyName(name, from_me) == ~from_me

\* Line 342: the stored name is still the placeholder (or empty) and the
\* message is not the operator's.
MayRename(name, from_me) == (name = "Cliente" \/ ~Truthy(name)) /\ ~from_me

\* Lines 334-345: the customer is looked up by phone.
SelCustomer(t) ==
    /\ task[t].pc = "selCustomer"
    /\ LET rec == task[t]
           c == CustomerByPhone(HandlerPhone(rec.ev))
       IN  task' = [task EXCEPT ![t] =
             IF c = 0 THEN [rec EXCEPT !.pc = "insCustomer"]
             ELSE IF /\ MayRename(customers[c].name, rec.ev.from_me)
                     /\ rec.ev.sender_name # customers[c].name
                  THEN [rec EXCEPT !.pc = "updName", !.customer = c]
             ELSE [rec EXCEPT !.pc = "selConversation", !.customer = c]]
    /\ UNCHANGED <<store, hub, received, issued, calls, requests>>

\* Lines 339-341: the new customer is flushed.  The insert waits while
\* another session holds an uncommitted customer with the same phone, and
\* raises IntegrityError when a committed one exists.
InsCustomer(t) ==
    /\ task[t].pc = "insCustomer"
    /\ ~\E u \in AllTasks \ {t} :
          /\ task[u].newCustomer
          /\ HandlerPhone(task[u].ev) = HandlerPhone(task[t].ev)
    /\ task' =
         IF ViolatesUniquePhone(HandlerPhone(task[t].ev))
         THEN Finished(t, "500")
         ELSE [task EXCEPT ![t].pc = "selConversation", ![t].newCustomer = TRUE]
    /\ UNCHANGED <<store, hub, received, issued, calls, requests>>

\* Lines 344-345: the name is updated and flushed; the update waits while
\* another session holds the lock of that customer's row.
UpdName(t) ==
    /\ task[t].pc = "updName"
    /\ ~\E u \in AllTasks \ {t} :
          task[u].setName /\ task[u].customer = task[t].customer
    /\ task' = [task EXCEPT ![t].pc = "selConversation", ![t].setName = TRUE]
    /\ UNCHANGED <<store, hub, received, issued, calls, requests>>

\* A lookup that takes any conversation of the customer, open or closed.
SelConversationAnyStatus(t) ==
    /\ task[t].pc = "selConversation"
    /\ LET rec == task[t]
           any == IF rec.newCustomer THEN {}
                  ELSE {k \in ConversationIds :
                          conversations[k].customer_id = rec.customer}
       IN  IF any = {}
           THEN task' = [task EXCEPT ![t].pc = "commit",
                                     ![t].newConversation = TRUE]
           ELSE \E k \in any :
                  task' = [task EXCEPT ![t].pc = "commit", ![t].conversation = k]
    /\ UNCHANGED <<store, hub, received, issued, calls, requests>>

\* Lines 348-358: the customer's open conversation is looked up (first() of
\* an unordered query: any of them) and a new one is flushed if there is none.
SelConversation(t) ==
    /\ task[t].pc = "selConversation"
    /\ LET rec == task[t]
           open == IF rec.newCustomer THEN {} ELSE OpenConversations(rec.customer)
       IN  IF open = {}
           THEN task' = [task EXCEPT ![t].pc = "commit",
                                     ![t].newConversation = TRUE]
           ELSE \E k \in open :
                  task' = [task EXCEPT ![t].pc = "commit", ![t].conversation = k]
    /\ UNCHANGED <<store, hub, received, issued, calls, requests>>

\* Line 361
SenderType(from_me) == IF from_me THEN "agent" ELSE "customer"

\* The columns of the stored message that depend on the handler: zapi_webhook
\* stores the provider's id and the media type (lines 366-368),
\* evolution_webhook sets neither (lines 489-493).
MessageId(rec) == IF rec.op = "evolution" THEN NULL ELSE rec.ev.whatsapp_id
MediaType(rec) ==
    IF rec.op # "evolution" /\ rec.ev.is_media THEN "image" ELSE NULL

\* zapi_webhook, lines 361-391, and evolution_webhook, lines 489-513: the
\* message is added, the conversation's updated_at is set to now() (line
\* 374) and the session commits (the flush of
\* the message may raise IntegrityError, which ends the request with a 500
\* and rolls the session back); then the broadcast of the message begins.
Commit(t) ==
    /\ task[t].pc = "commit"
    /\ LET rec == task[t]
           c == IF rec.newCustomer THEN Len(customers) + 1 ELSE rec.customer
           k == IF rec.newConversation THEN Len(conversations) + 1
                ELSE rec.conversation
           m == Len(messages) + 1
           row == [conversation_id |-> k,
                   sender_type |-> SenderType(rec.ev.from_me),
                   whatsapp_id |-> MessageId(rec),
                   media_type |-> MediaType(rec),
                   origin |-> "webhook", trigger |-> 0,
                   timestamp |-> Now]
           after == [rec EXCEPT !.customer = c, !.conversation = k,
                                !.db_message = m, !.newCustomer = FALSE,
                                !.setName = FALSE, !.newConversation = FALSE]
       IN  IF ViolatesUniqueId(MessageId(rec))
           THEN /\ task' = Finished(t, "500")
                /\ UNCHANGED store
           ELSE /\ customers' =
                     IF rec.newCustomer
                     THEN Append(customers, [phone |-> HandlerPhone(rec.ev),
                                             name |-> rec.ev.sender_name])
                     ELSE IF rec.setName
                     THEN [customers EXCEPT ![c].name = rec.ev.sender_name]
                     ELSE customers
                /\ conversations' =
                     IF rec.newConversation
                     THEN Append(conversations,
                                 [customer_id |-> c, status |-> "open",
                                  updated_at |-> Now])
                     ELSE [conversations EXCEPT ![k].updated_at = Now]
                /\ messages' = Append(messages, row)
                /\ task' = [task EXCEPT ![t] =
                     BeginBroadcast(after, MessageEvent(m), "broadcast")]
    /\ UNCHANGED <<hub, received, issued, calls, requests>>

\* ConnectionManager.broadcast, line 36: one send returns, or raises because
\* the observer's socket is gone.
BroadcastSend(t) ==
    /\ task[t].pc \in {"broadcast", "broadcastBot", "broadcastError",
                      "broadcastLeft"}
    /\ LET rec == task[t]
           w == rec.connection
       IN  IF w \in broken
           THEN /\ task' = [task EXCEPT ![t] = SendFailed(rec)]
                /\ UNCHANGED received
           ELSE /\ received' = [received EXCEPT ![w] = Append(@, rec.outgoing)]
                /\ task' = [task EXCEPT ![t] = ContinueBroadcast(rec)]
    /\ UNCHANGED <<store, hub, issued, calls, requests>>

\* A call of a collaborator: generate_chat_response or send_message, made
\* for conversation k by the handler of the stored message m.
Call(fn, k, m) == [fn |-> fn, conversation |-> k, message |-> m]

\* A gate per customer: a bot message in any conversation of the customer
\* closes it.
AlreadyGreetedCustomer(k) ==
    \E m \in MessageIds :
        /\ messages[m].sender_type = "bot"
        /\ conversations[messages[m].conversation_id].customer_id
             = conversations[k].customer_id

\* A gate that looks for the operator's messages instead of the bot's.
AlreadyGreetedByAgent(k) ==
    \E m \in MessageIds :
        messages[m].conversation_id = k /\ messages[m].sender_type = "agent"

\* Line 405
AlreadyGreeted(k) == BotMessages(k) # {}

\* A greeting block without the try of line 409: the generator's exception
\* ends the request.
GreetCheckUncaught(t, reply) ==
    /\ task[t].pc = "greet"
    /\ LET rec == task[t] IN
       IF AlreadyGreeted(rec.conversation)
       THEN /\ task' = Finished(t, "success")
            /\ UNCHANGED calls
       ELSE /\ calls' = calls \cup
                        {Call("generate", rec.conversation, rec.db_message)}
            /\ task' = IF reply = "text" THEN [task EXCEPT ![t].pc = "send"]
                       ELSE IF reply = "raise" THEN Finished(t, "500")
                       ELSE Finished(t, "success")
    /\ UNCHANGED <<store, hub, received, issued, requests>>

\* Lines 395-416: the conversation's bot messages are looked up and, when
\* there is none, generate_chat_response runs; it returns a text, returns
\* nothing, or raises (caught at line 445).
GreetCheck(t, reply) ==
    /\ task[t].pc = "greet"
    /\ LET rec == task[t] IN
       IF AlreadyGreeted(rec.conversation)
       THEN /\ task' = Finished(t, "success")
            /\ UNCHANGED calls
       ELSE /\ calls' = calls \cup
                        {Call("generate", rec.conversation, rec.db_message)}
            /\ task' = IF reply = "text" THEN [task EXCEPT ![t].pc = "send"]
                       ELSE Finished(t, "success")
    /\ UNCHANGED <<store, hub, received, issued, requests>>

\* Line 419: ZApiProvider.send_message returns the provider's message id, or
\* None when the request to the provider fails.
SendGreeting(t, sent) ==
    /\ task[t].pc = "send"
    /\ calls' = calls \cup
                {Call("send_message", task[t].conversation, task[t].db_message)}
    /\ IF sent
       THEN /\ issued < Len(OutIds)
            /\ issued' = issued + 1
            /\ task' = [task EXCEPT ![t].pc = "botCommit",
                                    ![t].bot_whatsapp_id = OutIds[issued + 1]]
       ELSE /\ issued' = issued
            /\ task' = [task EXCEPT ![t].pc = "botCommit",
                                    ![t].bot_whatsapp_id = NULL]
    /\ UNCHANGED <<store, hub, received, requests>>

\* Lines 423-443: the bot message is added and committed (IntegrityError is
\* caught at line 445); then its broadcast begins.
BotCommit(t) ==
    /\ task[t].pc = "botCommit"
    /\ LET rec == task[t]
           m == Len(messages) + 1
           row == [conversation_id |-> rec.conversation,
                   sender_type |-> "bot",
                   whatsapp_id |-> rec.bot_whatsapp_id,
                   media_type |-> NULL,
                   origin |-> "greeting", trigger |-> rec.db_message,
                   timestamp |-> Now]
       IN  IF ViolatesUniqueId(rec.bot_whatsapp_id)
           THEN /\ task' = Finished(t, "success")
                /\ UNCHANGED messages
           ELSE /\ messages' = Append(messages, row)
                /\ task' = [task EXCEPT ![t] =
                     BeginBroadcast(rec, MessageEvent(m), "broadcastBot")]
    /\ UNCHANGED <<customers, conversations, hub, received, issued, calls, requests>>

\* -------------------------------------------------------- evolution_webhook
\* Lines 453-461: a body that is no JSON object is refused by the framework
\* (422); the body is normalized by ZApiProvider.process_webhook
\* (get_whatsapp_service returns no other provider); an empty result or an
\* operator's message is ignored.  The phone is the part of remote_id before
\* the first "@", whatever it is.  The customer and the conversation are
\* then looked up as in zapi_webhook (lines 464-486); line 471 has no test
\* of from_me, which is false here.
EvolutionReceive(t, body) ==
    /\ Free(t)
    /\ requests' = requests + 1
    /\ LET normalized == process_webhook(body)
           start == [Idle EXCEPT !.op = "evolution"]
           answer(a) == [task EXCEPT ![t] = [start EXCEPT !.result = a]]
       IN  task' =
             IF ~body.valid THEN answer("422")
             ELSE IF normalized.raised THEN answer("500")
             ELSE IF normalized.empty \/ normalized.from_me
                  THEN answer("ignored")
             ELSE [task EXCEPT ![t] =
                     [start EXCEPT !.pc = "selCustomer", !.ev = normalized]]
    /\ UNCHANGED <<store, hub, received, issued, calls>>

\* Lines 516-529: the conversation's bot messages are counted and, when
\* there is none, generate_chat_response runs; nothing catches what it
\* raises.
EvoGreet(t, reply) ==
    /\ task[t].pc = "evoGreet"
    /\ LET rec == task[t] IN
       IF AlreadyGreeted(rec.conversation)
       THEN /\ task' = Finished(t, "success")
            /\ UNCHANGED calls
       ELSE /\ calls' = calls \cup
                        {Call("generate", rec.conversation, rec.db_message)}
            /\ task' = IF reply = "raise" THEN Finished(t, "500")
                       ELSE [task EXCEPT ![t].pc = "evoSend"]
    /\ UNCHANGED <<store, hub, received, issued, requests>>

\* Line 532: the reply is sent; the result of send_message is dropped.
EvoSend(t, sent) ==
    /\ task[t].pc = "evoSend"
    /\ calls' = calls \cup
                {Call("send_message", task[t].conversation, task[t].db_message)}
    /\ IF sent
       THEN issued < Len(OutIds) /\ issued' = issued + 1
       ELSE issued' = issued
    /\ task' = [task EXCEPT ![t].pc = "evoBotCommit"]
    /\ UNCHANGED <<store, hub, received, requests>>

\* Lines 535-550: the bot message is added without a provider id and
\* committed; then its broadcast begins.
EvoBotCommit(t) ==
    /\ task[t].pc = "evoBotCommit"
    /\ LET rec == task[t]
           m == Len(messages) + 1
           row == [conversation_id |-> rec.conversation,
                   sender_type |-> "bot",
                   whatsapp_id |-> NULL,
                   media_type |-> NULL,
                   origin |-> "greeting", trigger |-> rec.db_message,
                   timestamp |-> Now]
       IN  /\ messages' = Append(messages, row)
           /\ task' = [task EXCEPT ![t] =
                BeginBroadcast(rec, MessageEvent(m), "broadcastBot")]
    /\ UNCHANGED <<customers, conversations, hub, received, issued, calls, requests>>

\* -------------------------------------------------------- broadcast_encarte
\* Lines 205-248: without customer_ids every customer is selected; the loop
\* takes them one by one.
EncarteReceive(t) ==
    /\ Free(t)
    /\ requests' = requests + 1
    /\ LET start == [Idle EXCEPT !.op = "encarte"] IN
       task' = [task EXCEPT ![t] =
                 IF customers = <<>> THEN [start EXCEPT !.result = "success"]
                 ELSE [start EXCEPT !.pc = "encSelect", !.customer = 1,
                                    !.selected = Len(customers)]]
    /\ UNCHANGED <<store, hub, received, issued, calls>>

\* The open conversations of c whose updated_at is the latest:
\* order_by(updated_at.desc()).first() returns one of them.
LatestOpen(c) ==
    {k \in OpenConversations(c) :
        \A j \in OpenConversations(c) :
            conversations[j].updated_at <= conversations[k].updated_at}

\* Lines 250-264: the customer's most recently updated open conversation is
\* looked up, and a new one is flushed when there is none.
EncarteSelect(t) ==
    /\ task[t].pc = "encSelect"
    /\ LET rec == task[t]
           latest == LatestOpen(rec.customer)
       IN  \E k \in (IF latest = {} THEN {0} ELSE latest) :
              task' = [task EXCEPT ![t].pc = "encSend", ![t].conversation = k]
    /\ UNCHANGED <<store, hub, received, issued, calls, requests>>

\* Lines 266-284: the text goes to the gateway when the customer has a
\* phone (the result of send_message is dropped), the bot Message is added
\* to the session, and the loop goes on to the next customer or to the
\* commit.
EncarteSend(t, sent) ==
    /\ task[t].pc = "encSend"
    /\ LET rec == task[t]
           added == [rec EXCEPT !.pending = Append(@, rec.conversation)]
       IN  /\ IF customers[rec.customer].phone # <<>> /\ sent
              THEN issued < Len(OutIds) /\ issued' = issued + 1
              ELSE issued' = issued
           /\ task' = [task EXCEPT ![t] =
                IF rec.customer < rec.selected
                THEN [added EXCEPT !.pc = "encSelect",
                                   !.customer = rec.customer + 1]
                ELSE [added EXCEPT !.pc = "encCommit"]]
    /\ UNCHANGED <<store, hub, received, calls, requests>>

\* The conversations the commit of broadcast_encarte inserts, and the
\* conversation of its i-th message (the i-th customer's).
RECURSIVE NewConversations(_, _)
NewConversations(pending, i) ==
    IF i > Len(pending) THEN <<>>
    ELSE (IF pending[i] = 0
          THEN <<[customer_id |-> i, status |-> "open", updated_at |-> Now]>>
          ELSE <<>>) \o NewConversations(pending, i + 1)
EncarteConversation(pending, i) ==
    IF pending[i] # 0 THEN pending[i]
    ELSE Len(conversations)
         + Cardinality({j \in 1..i : pending[j] = 0})

\* Line 286: the one commit of the request stores the new conversations and
\* the bot Messages; no statement assigns updated_at.
EncarteCommit(t) ==
    /\ task[t].pc = "encCommit"
    /\ LET pending == task[t].pending IN
       /\ conversations' = conversations \o NewConversations(pending, 1)
       /\ messages' = messages \o
            [i \in 1..Len(pending) |->
               [conversation_id |-> EncarteConversation(pending, i),
                sender_type |-> "bot",
                whatsapp_id |-> NULL, media_type |-> NULL,
                origin |-> "encarte", trigger |-> 0,
                timestamp |-> Now]]
    /\ task' = Finished(t, "success")
    /\ UNCHANGED <<customers, hub, received, issued, calls, requests>>

\* -------------------------------------------- send_message_with_attachment
\* Lines 562-566: the conversation is looked up; a missing one is a 404.
\* content is the form field: a text, or None.
DashReceive(t, k, content) ==
    /\ Free(t)
    /\ requests' = requests + 1
    /\ LET start == [Idle EXCEPT !.op = "dashboard"] IN
       task' = [task EXCEPT ![t] =
                 IF k \notin ConversationIds
                 THEN [start EXCEPT !.result = "404"]
                 ELSE [start EXCEPT !.pc = "dashCommit", !.conversation = k,
                                    !.content = content,
                                    !.sender_type = "agent"]]
    /\ UNCHANGED <<store, hub, received, issued, calls>>

\* Lines 591-617: the agent's message is added, the conversation's
\* updated_at is set to now() (line 601) and the session commits, then the
\* broadcast of the message begins.
DashCommit(t) ==
    /\ task[t].pc = "dashCommit"
    /\ LET rec == task[t]
           m == Len(messages) + 1
           row == [conversation_id |-> rec.conversation,
                   sender_type |-> "agent",
                   whatsapp_id |-> NULL,
                   media_type |-> NULL,
                   origin |-> "dashboard", trigger |-> 0,
                   timestamp |-> Now]
       IN  /\ messages' = Append(messages, row)
           /\ conversations' =
                [conversations EXCEPT ![rec.conversation].updated_at = Now]
           /\ task' = [task EXCEPT ![t] =
                BeginBroadcast([rec EXCEPT !.db_message = m],
                               MessageEvent(m), "broadcast")]
    /\ UNCHANGED <<customers, hub, received, issued, calls, requests>>

\* Lines 619-641: the conversation and its customer are loaded and a message
\* with content is sent through the gateway, which returns the provider's id
\* or None.
DashSend(t, sent) ==
    /\ task[t].pc = "dashSelect"
    /\ IF Truthy(task[t].content) /\ sent
       THEN /\ issued < Len(OutIds)
            /\ issued' = issued + 1
            /\ task' = [task EXCEPT ![t].pc = "dashUpdate",
                                    ![t].bot_whatsapp_id = OutIds[issued + 1]]
       ELSE /\ issued' = issued
            /\ task' = Finished(t, "success")
    /\ UNCHANGED <<store, hub, received, calls, requests>>

\* Lines 644-646: the provider's id is written to the message and committed;
\* IntegrityError is not caught.
DashUpdate(t) ==
    /\ task[t].pc = "dashUpdate"
    /\ LET rec == task[t] IN
       IF ViolatesUniqueId(rec.bot_whatsapp_id)
       THEN /\ task' = Finished(t, "500")
            /\ UNCHANGED messages
       ELSE /\ messages' = [messages EXCEPT
                              ![rec.db_message].whatsapp_id = rec.bot_whatsapp_id]
            /\ task' = Finished(t, "success")
    /\ UNCHANGED <<customers, conversations, hub, received, issued, calls, requests>>

\* ------------------------------------------------------ websocket_endpoint
\* Lines 694-698: SenderType(value), CUSTOMER on ValueError.
WsSenderType(value) ==
    IF value \in {"customer", "agent", "bot"} THEN value ELSE "customer"

\* Lines 685-698: the endpoint of the connection w receives a text and reads
\* its fields; it handles one text at a time.
WsReceive(t, w, k, value) ==
    /\ Free(t)
    /\ \E j \in 1..Len(active_connections) : active_connections[j] = w
    /\ ~\E u \in AllTasks : task[u].pc # "done" /\ task[u].client = w
    /\ requests' = requests + 1
    /\ task' = [task EXCEPT ![t] =
                 [Idle EXCEPT !.op = "ws", !.pc = "wsCommit", !.client = w,
                              !.conversation = k,
                              !.sender_type = WsSenderType(value)]]
    /\ UNCHANGED <<store, hub, received, issued, calls>>

\* Lines 700-726: in a session of its own the message is added, the
\* conversation's updated_at is set to now() (lines 707-711) and the session
\* commits, then the broadcast of the message begins; a conversation_id
\* that no conversation has fails the insert, and line 784 broadcasts the
\* error.
WsCommit(t) ==
    /\ task[t].pc = "wsCommit"
    /\ LET rec == task[t]
           m == Len(messages) + 1
           row == [conversation_id |-> rec.conversation,
                   sender_type |-> rec.sender_type,
                   whatsapp_id |-> NULL,
                   media_type |-> NULL,
                   origin |-> "websocket", trigger |-> 0,
                   timestamp |-> Now]
       IN  IF rec.conversation \notin ConversationIds
           THEN /\ task' = [task EXCEPT ![t] =
                     BeginBroadcast(rec, ErrorNotice, "broadcastError")]
                /\ UNCHANGED <<conversations, messages>>
           ELSE /\ messages' = Append(messages, row)
                /\ conversations' =
                     [conversations EXCEPT ![rec.conversation].updated_at = Now]
                /\ task' = [task EXCEPT ![t] =
                     BeginBroadcast([rec EXCEPT !.db_message = m],
                                    MessageEvent(m), "broadcast")]
    /\ UNCHANGED <<customers, hub, received, issued, calls, requests>>

\* Lines 728-738: an agent's message is sent through the gateway; the id the
\* provider returns is dropped.
WsSend(t, sent) ==
    /\ task[t].pc = "wsSelect"
    /\ IF sent
       THEN issued < Len(OutIds) /\ issued' = issued + 1
       ELSE issued' = issued
    /\ task' = Finished(t, "success")
    /\ UNCHANGED <<store, hub, received, calls, requests>>

\* Lines 740-755: after a customer's message the conversation's bot messages
\* are counted and, when there is none, generate_chat_response runs; it
\* returns a text, returns nothing, or raises (caught at line 784).
WsGreet(t, reply) ==
    /\ task[t].pc = "wsGreet"
    /\ LET rec == task[t] IN
       IF AlreadyGreeted(rec.conversation)
       THEN /\ task' = Finished(t, "success")
            /\ UNCHANGED calls
       ELSE /\ calls' = calls \cup
                        {Call("generate", rec.conversation, rec.db_message)}
            /\ task' = [task EXCEPT ![t] =
                 IF reply = "raise"
                 THEN BeginBroadcast(rec, ErrorNotice, "broadcastError")
                 ELSE [rec EXCEPT !.pc = "wsBotCommit"]]
    /\ UNCHANGED <<store, hub, received, issued, requests>>

\* Lines 757-783: the bot message is added, the conversation's updated_at
\* is set to now() (lines 765-769) and the session commits, whatever the
\* generator returned; then the broadcast begins; nothing goes to the
\* gateway.
WsBotCommit(t) ==
    /\ task[t].pc = "wsBotCommit"
    /\ LET rec == task[t]
           m == Len(messages) + 1
           row == [conversation_id |-> rec.conversation,
                   sender_type |-> "bot",
                   whatsapp_id |-> NULL,
                   media_type |-> NULL,
                   origin |-> "greeting", trigger |-> rec.db_message,
                   timestamp |-> Now]
       IN  /\ messages' = Append(messages, row)
           /\ conversations' =
                [conversations EXCEPT ![rec.conversation].updated_at = Now]
           /\ task' = [task EXCEPT ![t] =
                BeginBroadcast(rec, MessageEvent(m), "broadcastBot")]
    /\ UNCHANGED <<customers, hub, received, issued, calls, requests>>

\* ----------------------------------------------------- create_conversation
\* Lines 183-189: a conversation with the posted customer_id and status is
\* added and committed.
create_conversation(t, c, status) ==
    /\ Free(t)
    /\ c \in CustomerIds
    /\ requests' = requests + 1
    /\ conversations' = Append(conversations,
                               [customer_id |-> c, status |-> status,
                                updated_at |-> Now])
    /\ task' = [task EXCEPT ![t] =
                 [Idle EXCEPT !.op = "create", !.result = "success"]]
    /\ UNCHANGED <<customers, messages, hub, received, issued, calls>>

\* ------------------------------------------------------- ConnectionManager
Registered(w) == \E j \in 1..Len(active_connections) : active_connections[j] = w

\* list.remove(w): the list without its first occurrence of w.
RECURSIVE Remove(_, _)
Remove(list, w) ==
    IF list = <<>> THEN <<>>
    ELSE IF Head(list) = w THEN Tail(list)
    ELSE <<Head(list)>> \o Remove(Tail(list), w)

\* Lines 27-29 and 682: an observer opens a websocket; it is accepted and
\* appended to the registry.
connect(w) ==
    /\ ~Registered(w)
    /\ w \notin broken
    /\ active_connections' = Append(active_connections, w)
    /\ UNCHANGED <<store, task, broken, received, issued, calls, requests>>

\* The observer's socket closes; the server has not noticed yet.
Drop(w) ==
    /\ Registered(w)
    /\ w \notin broken
    /\ broken' = broken \cup {w}
    /\ UNCHANGED <<store, task, active_connections, received, issued, calls, requests>>

\* Lines 685 and 787-789: receive_text of the closed socket raises
\* WebSocketDisconnect in its endpoint, which removes the socket from the
\* registry and broadcasts that the client left.
disconnect(t, w) ==
    /\ Free(t)
    /\ Registered(w)
    /\ w \in broken
    /\ ~\E u \in AllTasks : task[u].pc # "done" /\ task[u].client = w
    /\ active_connections' = Remove(active_connections, w)
    /\ task' = [task EXCEPT ![t] =
                 BroadcastOver(Remove(active_connections, w),
                               [Idle EXCEPT !.op = "leave", !.client = w],
                               LeftNotice, "broadcastLeft")]
    /\ UNCHANGED <<store, broken, received, issued, calls, requests>>

\* ----------------------------------------------------------------- inputs
NoField == [t |-> "absent", s |-> "", text |-> ABSENT, message |-> ABSENT]
TextObject(body) == [t |-> "dict", s |-> "", text |-> ABSENT, message |-> body]
NoMedia == [t |-> "absent", url |-> ABSENT]

\* A received text message of the customer 5511, as Z-API posts it.
BasePayload ==
    [valid |-> TRUE, isdict |-> TRUE,
     type |-> "ReceivedMessage", event |-> ABSENT, action |-> ABSENT,
     phone |-> JStr(<<"5511">>), isGroup |-> FALSE, fromMe |-> FALSE,
     senderName |-> ABSENT, pushName |-> ABSENT, messageId |-> ABSENT,
     text |-> TextObject("Oi"), message |-> NoField, caption |-> ABSENT,
     image |-> NoMedia, document |-> NoMedia]

\* The ids the provider gives to inbound messages.
InboundIds == {"m1"}

\* The payloads delivered to the webhook: message events of the customer or
\* of the operator (an echo carries the id the provider returned for the
\* send), with or without an id, and status events and group messages.
MessagePayloads ==
    {[BasePayload EXCEPT !.type = ty, !.fromMe = f, !.senderName = n,
                         !.messageId = id] :
        ty \in {"ReceivedMessage", "SendMessage"}, f \in BOOLEAN,
        n \in {"Ana"},
        id \in {ABSENT} \cup InboundIds \cup IssuedIds}
DroppedPayloads ==
    {[BasePayload EXCEPT !.type = ty, !.phone = ph, !.isGroup = g,
                         !.messageId = "m1"] :
        ty \in {"ReceivedMessage", "MessageStatus", "Connected",
                "Disconnected"},
        ph \in {JStr(<<"5511">>), JStr(<<"1203", "@", "g.us">>), JStr(<<>>),
                JAbsent},
        g \in BOOLEAN}
ZapiPayloads == MessagePayloads \cup DroppedPayloads

\* ------------------------------------------------------------------- specs
\* The stores the requests start from: the empty one, and the one of a
\* customer whom the dashboard created under the placeholder name
\* (create_customer) with a closed conversation (create_conversation) that
\* holds a customer's and an agent's message sent over the websocket.
EmptyStore == <<<<>>, <<>>, <<>>>>
ClosedStore ==
    << <<[phone |-> <<"5511">>, name |-> "Cliente"]>>,
       <<[customer_id |-> 1, status |-> "closed", updated_at |-> 1]>>,
       <<[conversation_id |-> 1, sender_type |-> "customer",
          whatsapp_id |-> NULL, media_type |-> NULL,
          origin |-> "websocket", trigger |-> 0, timestamp |-> 0],
         [conversation_id |-> 1, sender_type |-> "agent",
          whatsapp_id |-> NULL, media_type |-> NULL,
          origin |-> "websocket", trigger |-> 0, timestamp |-> 1]>> >>

Init ==
    /\ \E seed \in {EmptyStore, ClosedStore} :
          /\ customers = seed[1]
          /\ conversations = seed[2]
          /\ messages = seed[3]
    /\ task = [t \in AllTasks |-> Idle]
    /\ active_connections = <<"w1">>
    /\ broken \in SUBSET Conns
    /\ received = [w \in Conns |-> <<>>]
    /\ issued = 0
    /\ calls = {}
    /\ requests = 0

\* The steps of a request after it was received.
Step(t) ==
    \/ SelCustomer(t)
    \/ InsCustomer(t)
    \/ UpdName(t)
    \/ SelConversation(t)
    \/ Commit(t)
    \/ BroadcastSend(t)
    \/ \E reply \in {"text", "empty", "raise"} : GreetCheck(t, reply)
    \/ \E sent \in BOOLEAN : SendGreeting(t, sent)
    \/ BotCommit(t)

\* Spec: webhook deliveries of every kind, handled by two tasks.
Next ==
    \/ \E t \in Tasks, body \in ZapiPayloads :
          requests < MaxRequests /\ ZapiReceive(t, "POST", body)
    \/ \E t \in Tasks : Step(t)

Spec == Init /\ [][Next]_vars

\* SpecRedelivery: deliveries of the customer's messages whose messageId is
\* absent, empty or m1, so that an id is delivered again.
RedeliveryPayloads ==
    {[BasePayload EXCEPT !.messageId = id, !.senderName = "Ana"] :
        id \in {ABSENT, "", "m1"}}

NextRedelivery ==
    \/ \E t \in Tasks, body \in RedeliveryPayloads :
          requests < MaxRequests + 1 /\ ZapiReceive(t, "POST", body)
    \/ \E t \in Tasks : Step(t)

SpecRedelivery == Init /\ [][NextRedelivery]_vars

\* SpecFirstContact: the store is empty and every delivery is a message of
\* the phone 5511 without a messageId, typed by the customer or by the
\* operator, handled by up to three tasks at once.
MaxFirstContacts == 3

FirstContactPayloads ==
    {[BasePayload EXCEPT !.fromMe = f, !.senderName = "Ana"] : f \in BOOLEAN}

InitFirstContact ==
    /\ Init
    /\ store = EmptyStore

StepFirstContact(t) ==
    \/ SelCustomer(t)
    \/ InsCustomer(t)
    \/ SelConversation(t)
    \/ Commit(t)
    \/ BroadcastSend(t)
    \/ \E reply \in {"text", "empty", "raise"} : GreetCheck(t, reply)
    \/ \E sent \in BOOLEAN : SendGreeting(t, sent)
    \/ BotCommit(t)

NextFirstContact ==
    \/ \E t \in AllTasks, body \in FirstContactPayloads :
          requests < MaxFirstContacts /\ ZapiReceive(t, "POST", body)
    \/ \E t \in AllTasks : StepFirstContact(t)

SpecFirstContact == InitFirstContact /\ [][NextFirstContact]_vars

\* SpecOps: the customer's and the operator's messages arrive through the
\* webhook while the dashboard posts messages, observers send texts over the
\* websocket and conversations are created.
OpsStep(t) ==
    \/ DashCommit(t)
    \/ \E sent \in BOOLEAN : DashSend(t, sent)
    \/ DashUpdate(t)
    \/ WsCommit(t)
    \/ \E sent \in BOOLEAN : WsSend(t, sent)
    \/ \E reply \in {"text", "empty", "raise"} : WsGreet(t, reply)
    \/ WsBotCommit(t)

\* The conversation ids a client may name: the stored ones and one more.
ConversationInputs == 1..(Len(conversations) + 1)

NextOps ==
    \/ \E t \in Tasks, body \in MessagePayloads :
          requests < MaxRequests /\ ZapiReceive(t, "POST", body)
    \/ \E t \in Tasks, k \in ConversationInputs, content \in {"Ola", NULL} :
          requests < MaxRequests /\ DashReceive(t, k, content)
    \/ \E t \in Tasks, w \in Conns, k \in ConversationInputs,
          value \in {"customer", "agent", "bot", "other"} :
          requests < MaxRequests /\ WsReceive(t, w, k, value)
    \/ \E t \in Tasks, c \in CustomerIds, status \in {"open", "closed"} :
          requests < MaxRequests /\ create_conversation(t, c, status)
    \/ \E t \in Tasks : Step(t)
    \/ \E t \in Tasks : OpsStep(t)

SpecOps == Init /\ [][NextOps]_vars

\* SpecHub: observers connect, their sockets close and their endpoints
\* notice it, while the customer's messages arrive through the webhook.
HubPayloads == {[BasePayload EXCEPT !.senderName = "Ana"]}

InitHub ==
    /\ customers = <<>>
    /\ conversations = <<>>
    /\ messages = <<>>
    /\ task = [t \in AllTasks |-> Idle]
    /\ active_connections = <<>>
    /\ broken = {}
    /\ received = [w \in AllConns |-> <<>>]
    /\ issued = 0
    /\ calls = {}
    /\ requests = 0

NextHub ==
    \/ \E w \in AllConns : connect(w)
    \/ \E w \in AllConns : Drop(w)
    \/ \E t \in Tasks, w \in AllConns : disconnect(t, w)
    \/ \E t \in Tasks, body \in HubPayloads :
          requests < MaxRequests /\ ZapiReceive(t, "POST", body)
    \/ \E t \in Tasks : StepFirstContact(t)

SpecHub == InitHub /\ [][NextHub]_vars

\* SpecReturning: the webhook's deliveries arrive for a customer whose
\* earlier conversation was greeted over the websocket (a customer's message
\* and the bot's reply, lines 700-776) and is closed.
GreetedStore ==
    << <<[phone |-> <<"5511">>, name |-> "Cliente"]>>,
       <<[customer_id |-> 1, status |-> "closed", updated_at |-> 1]>>,
       <<[conversation_id |-> 1, sender_type |-> "customer",
          whatsapp_id |-> NULL, media_type |-> NULL,
          origin |-> "websocket", trigger |-> 0, timestamp |-> 0],
         [conversation_id |-> 1, sender_type |-> "bot",
          whatsapp_id |-> NULL, media_type |-> NULL,
          origin |-> "greeting", trigger |-> 1, timestamp |-> 1]>> >>

InitReturning ==
    /\ customers = GreetedStore[1]
    /\ conversations = GreetedStore[2]
    /\ messages = GreetedStore[3]
    /\ task = [t \in AllTasks |-> Idle]
    /\ active_connections = <<"w1">>
    /\ broken \in SUBSET Conns
    /\ received = [w \in Conns |-> <<>>]
    /\ issued = 0
    /\ calls = {}
    /\ requests = 0

SpecReturning == InitReturning /\ [][Next]_vars

\* SpecNames: both webhooks receive messages of the phone 5511 that carry one
\* of two display names or none, typed by the customer or by the operator.
\* The customer is unknown, or was created by the dashboard (create_customer)
\* under the placeholder, an empty name or a name of their own, with a
\* closed conversation as in ClosedStore.
DisplayNames == {"Ana", "Bia"}

NamePayloads ==
    {[BasePayload EXCEPT !.fromMe = f, !.senderName = n] :
        f \in BOOLEAN, n \in {ABSENT} \cup DisplayNames}

NamedStore(n) ==
    << <<[phone |-> <<"5511">>, name |-> n]>>, ClosedStore[2], ClosedStore[3] >>

InitNames ==
    /\ \E seed \in {EmptyStore} \cup {NamedStore(n) : n \in {"Cliente", "", "Ana"}} :
          /\ customers = seed[1]
          /\ conversations = seed[2]
          /\ messages = seed[3]
    /\ task = [t \in AllTasks |-> Idle]
    /\ active_connections = <<"w1">>
    /\ broken \in SUBSET Conns
    /\ received = [w \in Conns |-> <<>>]
    /\ issued = 0
    /\ calls = {}
    /\ requests = 0

\* The steps of evolution_webhook's greeting.
EvolutionStep(t) ==
    \/ \E reply \in {"text", "raise"} : EvoGreet(t, reply)
    \/ \E sent \in BOOLEAN : EvoSend(t, sent)
    \/ EvoBotCommit(t)

NextNames ==
    \/ \E t \in Tasks, body \in NamePayloads :
          requests < MaxRequests /\ ZapiReceive(t, "POST", body)
    \/ \E t \in Tasks, body \in NamePayloads :
          requests < MaxRequests /\ EvolutionReceive(t, body)
    \/ \E t \in Tasks : Step(t)
    \/ \E t \in Tasks : EvolutionStep(t)

SpecNames == InitNames /\ [][NextNames]_vars

\* SpecTimes: messages reach the conversations of the phone 5511 through
\* the webhook, the dashboard and broadcast_encarte.
TimesPayloads ==
    {[BasePayload EXCEPT !.fromMe = f, !.senderName = "Ana"] : f \in BOOLEAN}

EncarteStep(t) ==
    \/ EncarteSelect(t)
    \/ \E sent \in BOOLEAN : EncarteSend(t, sent)
    \/ EncarteCommit(t)

NextTimes ==
    \/ \E t \in Tasks, body \in TimesPayloads :
          requests < MaxRequests /\ ZapiReceive(t, "POST", body)
    \/ \E t \in Tasks, k \in ConversationInputs :
          requests < MaxRequests /\ DashReceive(t, k, "Ola")
    \/ \E t \in Tasks : requests < MaxRequests /\ EncarteReceive(t)
    \/ \E t \in Tasks : Step(t)
    \/ \E t \in Tasks : DashCommit(t)
    \/ \E t \in Tasks, sent \in BOOLEAN : DashSend(t, sent)
    \/ \E t \in Tasks : DashUpdate(t)
    \/ \E t \in Tasks : EncarteStep(t)

SpecTimes == Init /\ [][NextTimes]_vars

\* SpecStalled: the observer w1 has stopped reading, so a send_text to its
\* socket never returns (line 36 awaits it without a timeout); w2 reads.
\* The registry holds both in either order, or w2 alone.  The event loop
\* runs every handler that can take a step.
StalledConn == "w1"

SendReturns(t) ==
    /\ task[t].connection # StalledConn
    /\ BroadcastSend(t)

InitStalled ==
    /\ customers = <<>>
    /\ conversations = <<>>
    /\ messages = <<>>
    /\ task = [t \in AllTasks |-> Idle]
    /\ active_connections \in {<<"w1", "w2">>, <<"w2", "w1">>, <<"w2">>}
    /\ broken = {}
    /\ received = [w \in AllConns |-> <<>>]
    /\ issued = 0
    /\ calls = {}
    /\ requests = 0

StepStalled(t) ==
    \/ SelCustomer(t)
    \/ InsCustomer(t)
    \/ SelConversation(t)
    \/ Commit(t)
    \/ SendReturns(t)
    \/ \E reply \in {"text", "empty", "raise"} : GreetCheck(t, reply)
    \/ \E sent \in BOOLEAN : SendGreeting(t, sent)
    \/ BotCommit(t)

NextStalled ==
    \/ \E t \in Tasks, body \in FirstContactPayloads :
          requests < MaxRequests /\ ZapiReceive(t, "POST", body)
    \/ \E t \in Tasks : StepStalled(t)

SpecStalled ==
    /\ InitStalled
    /\ [][NextStalled]_vars
    /\ \A t \in Tasks : WF_vars(StepStalled(t))

\* SpecLeave: three observers are connected when one message of a customer
\* arrives through the webhook; their sockets close and their endpoints
\* notice it while the handler broadcasts.
LeaveConns == {"w1", "w2", "w3"}

InitLeave ==
    /\ customers = <<>>
    /\ conversations = <<>>
    /\ messages = <<>>
    /\ task = [t \in AllTasks |-> Idle]
    /\ active_connections = <<"w1", "w2", "w3">>
    /\ broken = {}
    /\ received = [w \in LeaveConns |-> <<>>]
    /\ issued = 0
    /\ calls = {}
    /\ requests = 0

NextLeave ==
    \/ \E w \in LeaveConns : Drop(w)
    \/ \E t \in Tasks, w \in LeaveConns : disconnect(t, w)
    \/ \E t \in Tasks, body \in HubPayloads :
          requests = 0 /\ ZapiReceive(t, "POST", body)
    \/ \E t \in Tasks : StepFirstContact(t)

SpecLeave == InitLeave /\ [][NextLeave]_vars

\* SpecShapes: one task handles deliveries of every shape of body and media
\* at both webhooks.  The values of the fields are told apart by their
\* strings; a media object carries the url of its kind.
StrField(v) == [t |-> "str", s |-> v, text |-> ABSENT, message |-> ABSENT]
MessageObject(tx, body) == [t |-> "dict", s |-> "", text |-> tx, message |-> body]
ImageUrl == "img.jpg"
DocumentUrl == "doc.pdf"
MediaObject(u) == [t |-> "dict", url |-> u]
NotAnObject == [t |-> "other", url |-> ABSENT]

ShapePayloads ==
    {[BasePayload EXCEPT !.text = tx, !.message = msg, !.caption = cap,
                         !.image = img, !.document = doc] :
        tx \in {NoField, StrField("Direct"), TextObject("Direct"),
                TextObject(ABSENT)},
        msg \in {NoField, StrField("Msg"), MessageObject("Nested", ABSENT),
                 MessageObject(ABSENT, "Inner")},
        cap \in {ABSENT, "Caption"},
        img \in {NoMedia, MediaObject(ImageUrl), NotAnObject},
        doc \in {NoMedia, MediaObject(DocumentUrl), NotAnObject}}

\* A body that is no JSON object (a list, a string, a number).
NotADict == [BasePayload EXCEPT !.isdict = FALSE]

\* What the Evolution API posts for a message of a customer:
\* {"event": "messages.upsert", "data": {"key": {"remoteJid":
\* "5511@s.whatsapp.net", "fromMe": false}, "message": {"conversation":
\* "Oi"}, "pushName": "Ana"}}.  The adapter in service reads the top-level
\* keys only, and of those the payload has event alone.
UpsertPayload ==
    [BasePayload EXCEPT !.type = ABSENT, !.event = "messages.upsert",
                        !.phone = JAbsent, !.text = NoField]

\* The plain text message of a sender who has a display name.
NamedPayload == [BasePayload EXCEPT !.senderName = "Ana"]

DeliveredShapes == ShapePayloads \cup {NotADict, UpsertPayload, NamedPayload}

InitShapes ==
    /\ customers = <<>>
    /\ conversations = <<>>
    /\ messages = <<>>
    /\ task = [t \in AllTasks |-> Idle]
    /\ active_connections = <<"w1">>
    /\ broken = {}
    /\ received = [w \in Conns |-> <<>>]
    /\ issued = 0
    /\ calls = {}
    /\ requests = 0

NextShapes ==
    \/ \E body \in DeliveredShapes :
          requests < MaxRequests /\ ZapiReceive(1, "POST", body)
    \/ \E body \in DeliveredShapes :
          requests < MaxRequests /\ EvolutionReceive(1, body)
    \/ Step(1)
    \/ EvolutionStep(1)

SpecShapes == InitShapes /\ [][NextShapes]_vars

\* ------------------------------------------------------------------ claims
\* A request is in flight; the server is quiescent when none is.
Running(t) == task[t].pc # "done"
Quiescent == \A t \in AllTasks : ~Running(t)

\* C1: a delivery whose messageId already belongs to a stored Message is
\* answered "already_processed" and changes nothing: no row is written, no
\* name or conversation is touched, nothing is broadcast and neither the
\* reply generator nor the gateway is called.
StoredId(id) ==
    id \notin {ABSENT, NULL} /\ \E m \in MessageIds : messages[m].whatsapp_id = id
C1_IdempotentRedelivery ==
    [][\A t \in Tasks, body \in RedeliveryPayloads :
          ( /\ requests' = requests + 1
            /\ StoredId(body.messageId)
            /\ ZapiReceive(t, "POST", body) )
          => /\ task'[t].pc = "done"
             /\ task'[t].result = "already_processed"
             /\ UNCHANGED <<store, received, calls>>]_vars

\* C3: a delivery that passed the duplicate check and finds its id stored
\* when it commits (the other delivery of that id committed first) ends as
\* an acknowledgment, not as an error, and the id is stored exactly once.
C3_LoserIsAcknowledged ==
    [][\A t \in Tasks :
          ( /\ task[t].pc = "commit"
            /\ Truthy(task[t].ev.whatsapp_id)
            /\ MessagesWithId(task[t].ev.whatsapp_id) # {}
            /\ task'[t].pc = "done" )
          => /\ task'[t].result \in {"success", "already_processed"}
             /\ Cardinality({m \in 1..Len(messages') :
                   messages'[m].whatsapp_id = task[t].ev.whatsapp_id}) = 1]_vars

\* C5: once every handler of N >= 1 deliveries from the same new phone has
\* finished, exactly one Customer with that phone and exactly one open
\* Conversation of it exist.
C5_OneCustomerOneConversation ==
    (Quiescent /\ requests >= 1)
    => /\ Len(customers) = 1
       /\ customers[1].phone = <<"5511">>
       /\ Cardinality(OpenConversations(1)) = 1
       /\ Len(conversations) = 1
C5_Witness ==
    /\ Quiescent
    /\ requests = 3
    /\ broken = {}
    /\ Cardinality({t \in AllTasks : task[t].result = "500"}) = 2
    /\ Len(customers) = 1

\* C2: in every reachable state no two stored Messages carry the same
\* non-null whatsapp_id, whatever the interleaving of webhook deliveries,
\* greetings and dashboard sends.
C2_ExternalIdUnique ==
    \A m1, m2 \in MessageIds :
        (m1 # m2 /\ messages[m1].whatsapp_id # NULL)
        => messages[m1].whatsapp_id # messages[m2].whatsapp_id
C2_Witness ==
    /\ Quiescent
    /\ broken = {}
    /\ \E t \in Tasks : task[t].op = "dashboard" /\ task[t].result = "500"
    /\ \E m \in MessageIds :
          /\ messages[m].origin = "webhook"
          /\ messages[m].whatsapp_id \in IssuedIds
    /\ \E m \in MessageIds :
          messages[m].origin = "dashboard" /\ messages[m].whatsapp_id = NULL

\* C4: in every reachable state each customer has at most one conversation
\* with status open.
C4_OneOpenConversation ==
    \A c \in CustomerIds : Cardinality(OpenConversations(c)) <= 1

\* C6: in every reachable state each conversation holds at most one bot
\* Message produced by the first-contact trigger.
GreetingsOf(k) ==
    {m \in MessageIds :
        messages[m].conversation_id = k /\ messages[m].origin = "greeting"}
C6_OneGreeting ==
    \A k \in ConversationIds : Cardinality(GreetingsOf(k)) <= 1

\* C7: the reply generator is called, the greeting is sent and the greeting
\* is stored only for a triggering message whose role is customer, in the
\* webhook handler and in the websocket endpoint alike.
C7_OnlyCustomerTriggers ==
    /\ \A call \in calls : messages[call.message].sender_type = "customer"
    /\ \A m \in MessageIds :
          messages[m].origin = "greeting" /\ messages[m].trigger # 0
          => messages[messages[m].trigger].sender_type = "customer"
    /\ \A t \in Tasks :
          task[t].pc \in {"greet", "send", "botCommit", "wsGreet", "wsBotCommit"}
          => messages[task[t].db_message].sender_type = "customer"
C7_Witness ==
    /\ Quiescent
    /\ \E m1, m2 \in MessageIds :
          /\ messages[m1].origin = "webhook"
          /\ messages[m1].sender_type = "agent"
          /\ messages[m2].origin = "websocket"
          /\ messages[m2].sender_type = "agent"
          /\ messages[m1].conversation_id = messages[m2].conversation_id
          /\ BotMessages(messages[m1].conversation_id) = {}
          /\ \A call \in calls : call.conversation # messages[m1].conversation_id

\* C8: once a conversation contains a bot Message, a customer message stored
\* in it later leads to no call of the reply generator, no greeting sent
\* through the gateway and no further bot Message.
C8_GateStaysClosed ==
    /\ \A call \in calls :
          \A b \in BotMessages(call.conversation) : b > call.message
    /\ \A m \in MessageIds :
          messages[m].origin = "greeting"
          => \A b \in BotMessages(messages[m].conversation_id) :
                b > messages[m].trigger
C8_Witness ==
    /\ Quiescent
    /\ \E b, m \in MessageIds :
          /\ b < m
          /\ messages[b].sender_type = "bot"
          /\ messages[m].sender_type = "customer"
          /\ messages[m].conversation_id = messages[b].conversation_id
          /\ conversations[messages[m].conversation_id].status = "open"
          /\ \E t \in Tasks : task[t].result = "success"

\* C9: a payload that is group-flagged (isGroup, or a phone with the group
\* suffix) or that is a known status event is answered "ignored" and writes
\* no Message, Customer or Conversation, whatever the store holds.
GroupFlagged(body) ==
    body.isGroup \/ (body.phone.t = "str" /\ HasGroupSuffix(body.phone.s))
StatusEvent(body) == body.type \in {"Disconnected", "Connected", "MessageStatus"}
C9_DroppedNeverPersisted ==
    [][\A t \in Tasks, body \in DroppedPayloads :
          ( /\ requests' = requests + 1
            /\ GroupFlagged(body) \/ StatusEvent(body)
            /\ ZapiReceive(t, "POST", body) )
          => /\ task'[t].pc = "done"
             /\ task'[t].result = "ignored"
             /\ UNCHANGED store]_vars
C9_Witness ==
    /\ \E t \in Tasks : task[t].result = "ignored"
    /\ messages # <<>>

\* C10: when a send of a broadcast fails on a registered connection, that
\* connection is removed from the registry and the broadcast goes on with the
\* same event to the connections that follow it in the registry.
C10_SendFailureIsolated ==
    [][\A t \in Tasks :
          (BroadcastSend(t) /\ task[t].connection \in broken)
          => /\ \A j \in 1..Len(active_connections') :
                   active_connections'[j] # task[t].connection
             /\ task[t].i < Len(active_connections)
                => /\ task'[t].pc = task[t].pc
                   /\ task'[t].outgoing = task[t].outgoing
                   /\ task'[t].connection = active_connections[task[t].i + 1]]_vars

\* C11: every message the webhook handlers committed has been pushed to
\* every registered connection once the handlers are done, and each
\* connection receives the events of two messages of one conversation in the
\* order in which the messages were committed.
Delivered(w, m) ==
    \E i \in 1..Len(received[w]) : received[w][i] = MessageEvent(m)
C11_CommitOrderDelivery ==
    /\ (Quiescent /\ broken = {})
       => \A m \in MessageIds :
             messages[m].origin \in {"webhook", "greeting"}
             => \A w \in Conns : Delivered(w, m)
    /\ \A w \in Conns : \A i, j \in 1..Len(received[w]) :
          ( /\ i < j
            /\ received[w][i].type = "message"
            /\ received[w][j].type = "message"
            /\ messages[received[w][i].id].conversation_id
                 = messages[received[w][j].id].conversation_id )
          => received[w][i].id < received[w][j].id

\* C12: a customer's message from a phone without any record, handled alone
\* with healthy observers, leaves one Customer named from the payload, one
\* open Conversation and one customer Message; the steps come in the order
\* customer message committed, its event pushed, greeting generated, greeting
\* sent, bot Message committed, its event pushed; and when both collaborators
\* succeeded the handler ends with exactly one bot Message after the
\* customer's.
Generated == Call("generate", 1, 1)
Sent == Call("send_message", 1, 1)
C12_FirstContactInOrder ==
    (requests = 1 /\ broken = {})
    => LET rec == task[1]
           pushed == received["w1"]
       IN
       /\ rec.pc \in {"selCustomer", "insCustomer", "selConversation", "commit"}
          => store = EmptyStore /\ pushed = <<>> /\ calls = {}
       /\ (messages # <<>> /\ messages[1].sender_type = "customer")
          => /\ customers = <<[phone |-> <<"5511">>, name |-> "Ana"]>>
             /\ conversations = <<[customer_id |-> 1, status |-> "open",
                                    updated_at |-> 0]>>
             /\ messages[1].conversation_id = 1
             /\ rec.pc = "broadcast"
                => Len(messages) = 1 /\ pushed = <<>> /\ calls = {}
             /\ rec.pc = "greet"
                => Len(messages) = 1 /\ pushed = <<MessageEvent(1)>> /\ calls = {}
             /\ rec.pc = "send"
                => /\ Len(messages) = 1 /\ pushed = <<MessageEvent(1)>>
                   /\ calls = {Generated}
             /\ rec.pc = "botCommit"
                => /\ Len(messages) = 1 /\ pushed = <<MessageEvent(1)>>
                   /\ calls = {Generated, Sent}
             /\ rec.pc = "broadcastBot"
                => /\ Len(messages) = 2 /\ pushed = <<MessageEvent(1)>>
                   /\ calls = {Generated, Sent}
             /\ rec.pc = "done"
                => /\ rec.result = "success"
                   /\ \/ /\ Len(messages) = 2
                         /\ pushed = <<MessageEvent(1), MessageEvent(2)>>
                         /\ calls = {Generated, Sent}
                      \/ /\ Len(messages) = 1
                         /\ pushed = <<MessageEvent(1)>>
                         /\ calls = {Generated}
                   /\ issued = 1 => Len(messages) = 2
             /\ Len(messages) = 2
                => /\ messages[2].sender_type = "bot"
                   /\ messages[2].conversation_id = 1
                   /\ messages[2].trigger = 1
C12_Witness ==
    /\ requests = 1
    /\ broken = {}
    /\ Quiescent
    /\ issued = 1
    /\ messages # <<>>
    /\ messages[1].sender_type = "customer"
    /\ received["w1"] = <<MessageEvent(1), MessageEvent(2)>>

\* C13: no request to the webhook ends in an unhandled exception (a 500
\* response): whatever the payload and whatever fails, the handler returns
\* one of its status bodies.
StatusBodies ==
    {"ok", "error", "ignored", "already_processed", "no_phone", "success"}
C13_WebhookNeverFails ==
    \A t \in Tasks :
        (task[t].op = "zapi" /\ task[t].pc = "done")
        => task[t].result \in StatusBodies

\* C14: an accepted message event whose payload has no phone field, or a
\* null or empty one, is answered "no_phone" and writes no Customer,
\* Conversation or Message.
AcceptedMessage(body) ==
    ~process_webhook(body).empty /\ ~process_webhook(body).raised
C14_NoPhoneAcknowledged ==
    [][\A t \in Tasks, body \in DroppedPayloads :
          ( /\ requests' = requests + 1
            /\ AcceptedMessage(body)
            /\ ~PhoneTruthy(body.phone)
            /\ ~AlreadyProcessed(Get(body.messageId))
            /\ ZapiReceive(t, "POST", body) )
          => /\ task'[t].pc = "done"
             /\ task'[t].result = "no_phone"
             /\ UNCHANGED store]_vars

\* C15: when the gateway returned no provider id for the greeting, the
\* handler stores no bot Message and pushes no bot event, so that the
\* conversation still has no bot Message for the next customer message.
C15_FailedSendLeavesGateOpen ==
    [][\A t \in Tasks :
          ( /\ task[t].pc = "botCommit"
            /\ task[t].bot_whatsapp_id = NULL
            /\ BotCommit(t) )
          => /\ messages' = messages
             /\ task'[t].pc = "done"
             /\ BotMessages(task[t].conversation)' = BotMessages(task[t].conversation)]_vars

MessagesOf(k) == {m \in MessageIds : messages[m].conversation_id = k}
C17_ClosedStaysClosed ==
    [][/\ \A k \in ConversationIds :
             conversations[k].status = "closed"
             => /\ k \in 1..Len(conversations')
                /\ conversations'[k].status = "closed"
       /\ \A t \in Tasks :
             ( /\ task[t].op = "zapi"
               /\ task'[t] # task[t]
               /\ messages' # messages )
             => LET m == Len(messages')
                    k == messages'[m].conversation_id
                IN  /\ m = Len(messages) + 1
                    /\ conversations'[k].status = "open"
                    /\ \A j \in ConversationIds :
                          conversations[j].status = "closed"
                          => MessagesOf(j)' = MessagesOf(j)
                    /\ ( /\ task[t].pc = "commit"
                         /\ task[t].customer # 0
                         /\ OpenConversations(task[t].customer) = {} )
                       => /\ Len(conversations') = Len(conversations) + 1
                          /\ k = Len(conversations')
                          /\ conversations'[k].customer_id = task[t].customer]_vars
C17_Witness ==
    /\ Quiescent
    /\ Len(conversations) = 2
    /\ conversations[1].status = "closed"
    /\ conversations[2].customer_id = 1
    /\ conversations[2].status = "open"
    /\ MessagesOf(1) = {1, 2}
    /\ \E m \in MessagesOf(2) : messages[m].origin = "webhook"

\* C18: the greeting gate looks at the conversation only: a customer message
\* handled in a conversation without bot Message calls the generator, and
\* goes on to send its reply, although an earlier, closed conversation of the
\* same customer holds a bot Message.
GreetedBefore(k) ==
    \E j \in ConversationIds \ {k} :
        /\ conversations[j].customer_id = conversations[k].customer_id
        /\ conversations[j].status = "closed"
        /\ BotMessages(j) # {}
C18_GatePerConversation ==
    [][\A t \in Tasks :
          LET k == task[t].conversation IN
          ( /\ task[t].pc = "greet"
            /\ task'[t] # task[t]
            /\ BotMessages(k) = {}
            /\ GreetedBefore(k) )
          => /\ Call("generate", k, task[t].db_message) \in calls'
             /\ GreetCheck(t, "text") => task'[t].pc = "send"]_vars
C18_Witness ==
    /\ Quiescent
    /\ BotMessages(1) = {2}
    /\ conversations[1].status = "closed"
    /\ Len(conversations) = 2
    /\ conversations[2].customer_id = 1
    /\ conversations[2].status = "open"
    /\ \E b \in BotMessages(2) :
          /\ messages[b].origin = "greeting"
          /\ messages[messages[b].trigger].conversation_id = 2
          /\ messages[b].whatsapp_id \in IssuedIds

\* C19: an inbound event changes an existing customer's name only through a
\* handler that found the placeholder "Cliente" or an empty name when it
\* looked the customer up and whose event is not the operator's: a handler
\* goes on to the update of the name only in that case, only such a handler
\* holds an update, and a step that changes a stored name is the commit of
\* a handler that holds one and writes its event's sender name; every other
\* step leaves every stored name as it was.
Placeholder(name) == name = "Cliente" \/ name = "" \/ name = NULL
C20_UpdatedAtCoversMessages ==
    \A m \in MessageIds :
        conversations[messages[m].conversation_id].updated_at
          >= messages[m].timestamp

\* C21: a send that never completes on one connection does not stall the
\* sends to the others: every stored message is eventually pushed to the
\* observer w2, which is registered and reads.
C21_BlockedSendDoesNotStall ==
    \A m \in 1..(2 * MaxRequests) :
        (m \in MessageIds) ~> Delivered("w2", m)

\* C22: observers are removed from the registry while a broadcast is
\* suspended in its loop; when the loop ends after a send that returned
\* (so that no send of it has failed), every observer that is still
\* registered and connected, and was registered when the broadcast began,
\* has received the event of the broadcast exactly once.
TimesReceived(w, event) ==
    Cardinality({i \in 1..Len(received[w]) : received[w][i] = event})
C22_RegistryToleratesLeaving ==
    [][\A t \in Tasks :
          ( /\ task[t].pc \in {"broadcast", "broadcastBot"}
            /\ task[t].connection \notin broken
            /\ task'[t].pc # task[t].pc )
          => \A w \in LeaveConns :
                (Registered(w) /\ w \notin broken)
                => TimesReceived(w, task[t].outgoing)' = 1]_vars

\* C23: everything pushed to an observer is the event of a stored message;
\* no error notice and no other text is pushed.
C23_OnlyMessageEvents ==
    \A w \in DOMAIN received : \A i \in 1..Len(received[w]) :
        /\ received[w][i].type = "message"
        /\ received[w][i].id \in MessageIds

\* C24: what a webhook handler has committed stays stored when the handler
\* fails afterwards: no step removes or rewrites a stored Message, Customer
\* or Conversation; and the redelivery of the id of a Message whose handler
\* failed in the broadcast is answered "already_processed" and stores no
\* second Message.
FailedAfterCommit(m) ==
    /\ messages[m].origin = "webhook"
    /\ ~Delivered("w1", m)
    /\ \A t \in AllTasks : task[t].db_message # m
C24_FailureKeepsCommitted ==
    [][/\ \A m \in MessageIds :
             m <= Len(messages') /\ messages'[m] = messages[m]
       /\ \A c \in CustomerIds :
             c <= Len(customers') /\ customers'[c].phone = customers[c].phone
       /\ \A k \in ConversationIds :
             /\ k <= Len(conversations')
             /\ conversations'[k].customer_id = conversations[k].customer_id
             /\ conversations'[k].status = conversations[k].status
       /\ \A t \in Tasks, body \in RedeliveryPayloads :
             ( /\ requests' = requests + 1
               /\ \E m \in MessageIds :
                     /\ FailedAfterCommit(m)
                     /\ messages[m].whatsapp_id = body.messageId
               /\ ZapiReceive(t, "POST", body) )
             => /\ task'[t].pc = "done"
                /\ task'[t].result = "already_processed"
                /\ messages' = messages]_vars

\* C25: the provider adapter never raises: whatever the shape of the
\* payload, process_webhook returns a normalized event or the empty result,
\* so no delivery ends with the server error of an uncaught exception of
\* the adapter.
C25_AdapterNeverRaises ==
    [][\A body \in DeliveredShapes :
          ( /\ requests' = requests + 1
            /\ body.valid
            /\ ZapiReceive(1, "POST", body) \/ EvolutionReceive(1, body) )
          => /\ ~process_webhook(body).raised
             /\ task'[1].result # "500"]_vars

\* C26: the body is the first available of the direct text field, the text
\* of the message object, the caption and the empty string.
DirectText(data) ==
    IF data.text.t = "dict" THEN Get(data.text.message)
    ELSE FieldValue(data.text)
NestedText(data) ==
    IF data.message.t = "dict"
    THEN PyOr(Get(data.message.text), Get(data.message.message))
    ELSE FieldValue(data.message)
FirstAvailable(data) ==
    PyOr(PyOr(PyOr(DirectText(data), NestedText(data)), Get(data.caption)), "")
C26_ContentPrecedence ==
    [][\A body \in ShapePayloads :
          ( /\ requests' = requests + 1
            /\ ZapiReceive(1, "POST", body)
            /\ task'[1].pc = "selCustomer" )
          => task'[1].ev.content = FirstAvailable(body)]_vars

\* C27: a stored inbound message has the media kind of its payload: image
\* for an image, document for a document, none for neither, whatever the
\* body.
KindOfUrl(url) ==
    IF url = ImageUrl THEN "image"
    ELSE IF url = DocumentUrl THEN "document"
    ELSE NULL
C27_MediaKindStored ==
    [][( /\ task[1].op = "zapi"
         /\ task[1].pc = "commit"
         /\ Len(messages') = Len(messages) + 1 )
       => messages'[Len(messages')].media_type
             = KindOfUrl(task[1].ev.media_url)]_vars

\* C28: a customer's messages.upsert event delivered to the upsert-event
\* webhook is not answered "ignored": the handler goes on to store it.
C28_UpsertEventIngested ==
    [][( /\ requests' = requests + 1
         /\ EvolutionReceive(1, UpsertPayload) )
       => /\ task'[1].result # "ignored"
          /\ task'[1].pc = "selCustomer"]_vars

\* C29: every greeting the gateway accepted is recorded as exactly one bot
\* Message: once the handler that sent it is past its commit, one stored
\* bot Message carries the id the gateway returned, whether or not the
\* provider's echo of that id was ingested in between.
BotMessagesWithId(g) ==
    {m \in MessageIds :
        messages[m].sender_type = "bot" /\ messages[m].whatsapp_id = g}
C29_AcceptedGreetingRecorded ==
    \A g \in IssuedIds :
        (\A t \in AllTasks :
            ~(task[t].pc = "botCommit" /\ task[t].bot_whatsapp_id = g))
        => Cardinality(BotMessagesWithId(g)) = 1

\* C30: an agent message sent from the dashboard is stored once: when the
\* handler writes the provider's id back, the update succeeds and the
\* dashboard's message is the only stored Message with that id, even when
\* the provider's echo of the send was handled in between.
C30_DashboardMessageOnce ==
    [][\A t \in Tasks :
          ( /\ task[t].op = "dashboard"
            /\ task[t].pc = "dashUpdate"
            /\ task'[t].pc # "dashUpdate" )
          => /\ task'[t].result = "success"
             /\ {m \in 1..Len(messages') :
                    messages'[m].whatsapp_id = task[t].bot_whatsapp_id}
                   = {task[t].db_message}]_vars

====
